---- MODULE Spec2Model ----
(***************************************************************************)
(* The CRON schedule evaluator of src/src/app/page.tsx (CronGenerator):    *)
(* parseCronPart, calculateNextExecutions, validateCronExpression and the  *)
(* debounced effect that drives them; saveToHistory, clearHistory and the  *)
(* two conversion handlers that save to the history.                       *)
(*                                                                         *)
(* Strings are sequences of one-character strings, so that trim, split,    *)
(* includes, Number.parseInt and Number are computed on the characters.    *)
(* Instants are whole minutes counted from 2024-01-01T00:00 local time (a  *)
(* Monday), in a time zone without daylight-saving transitions; the        *)
(* reference instant `now` also carries its milliseconds inside the minute.*)
(***************************************************************************)
EXTENDS Integers, Sequences, FiniteSets, TLC

(***************************************************************************)
(* State                                                                   *)
(***************************************************************************)
VARIABLES
  cronInput,       \* useState(""): the text of the CRON input
  timer,           \* the debounce timeout of the validation effect is pending
  cronValidation,  \* useState(null): Null or [isValid, message]
  nextExecutions,  \* useState([]): the displayed occurrence list
  pc,              \* "idle" | "parse" | "search": position inside
                   \* calculateNextExecutions ("none": no component mounted)
  parts,           \* calculateNextExecutions: the five tokens
  now,             \* calculateNextExecutions: new Date(), [t, ms]
  fld,             \* which of the five parseCronPart calls is next (1..6)
  fields,          \* minutes, hours, days, months, weekdays parsed so far
  searchDate,      \* the search cursor
  attempts,        \* the loop counter
  executions,      \* the formatted instants collected so far
  instants,        \* the searchDate of each entry of executions (history)
  ppc,             \* parseCronPart: "off" | "entry" | "loop" | "ret"
  part,            \* parseCronPart: its arguments part, min, max
  min,
  max,
  stepNum,         \* parseCronPart: Number.parseInt(step)
  i,               \* parseCronPart: the for loop's variable (may be NaN)
  values,          \* parseCronPart: the array built or returned
  firstRun,        \* the first completed calculateNextExecutions call:
                   \* Null or [expression, now, result] (history)
  history,         \* useState<HistoryItem[]>([])
  storage,         \* localStorage item "cron-generator-history": NoItem or JSON
  clock,           \* Date.now(), counted from the page load
  nlLoading,       \* useState(false)
  cronLoading,     \* useState(false)
  nlRequest,       \* handleNlToCron awaiting fetch: the values it closed over
  cronRequest      \* handleCronToNl awaiting fetch: the values it closed over

uiVars == <<cronInput, timer, cronValidation, nextExecutions>>

callVars == <<pc, parts, now, fld, fields>>

searchVars == <<searchDate, attempts, executions, instants>>

parseVars == <<ppc, part, min, max, stepNum, i, values>>

histVars ==
  <<history, storage, clock, nlLoading, cronLoading, nlRequest, cronRequest>>

vars == <<uiVars, callVars, searchVars, parseVars, firstRun, histVars>>

(***************************************************************************)
(* JavaScript values                                                       *)
(***************************************************************************)
\* null (useState<...| null>(null); days/weekdays of a "*" day field)
Null == [null |-> TRUE]

\* a JS number that may be NaN
NaN == [nan |-> TRUE, v |-> 0]

Num(n) == [nan |-> FALSE, v |-> n]

isNaN(x) == x.nan

Digits == <<"0", "1", "2", "3", "4", "5", "6", "7", "8", "9">>

IsDigit(c) == \E d \in 1..10 : Digits[d] = c

DigitValue(c) == (CHOOSE d \in 1..10 : Digits[d] = c) - 1

IsSpace(c) == c = " "

\* String.prototype.includes with a one-character needle
Includes(s, c) == \E k \in 1..Len(s) : s[k] = c

\* Array.prototype.includes on an array of numbers
ArrIncludes(arr, n) == \E k \in 1..Len(arr) : arr[k] = n

RECURSIVE SplitOn(_, _)
\* String.prototype.split with a one-character separator
SplitOn(s, c) ==
  IF ~Includes(s, c) THEN <<s>>
  ELSE LET k == CHOOSE j \in 1..Len(s) :
                  s[j] = c /\ \A h \in 1..(j - 1) : s[h] # c
       IN <<SubSeq(s, 1, k - 1)>> \o SplitOn(SubSeq(s, k + 1, Len(s)), c)

RECURSIVE TrimStart(_)
TrimStart(s) == IF s # <<>> /\ IsSpace(s[1]) THEN TrimStart(Tail(s)) ELSE s

RECURSIVE TrimEnd(_)
TrimEnd(s) ==
  IF s # <<>> /\ IsSpace(s[Len(s)]) THEN TrimEnd(SubSeq(s, 1, Len(s) - 1)) ELSE s

\* String.prototype.trim
Trim(s) == TrimEnd(TrimStart(s))

RECURSIVE SplitSpaces(_)
\* split(/\s+/): every maximal run of whitespace is one separator
SplitSpaces(s) ==
  IF ~Includes(s, " ") THEN <<s>>
  ELSE LET k == CHOOSE j \in 1..Len(s) :
                  IsSpace(s[j]) /\ \A h \in 1..(j - 1) : ~IsSpace(s[h])
           rest == SubSeq(s, k + 1, Len(s))
       IN IF rest # <<>> /\ IsSpace(rest[1])
          THEN SplitSpaces(SubSeq(s, 1, k - 1) \o rest)
          ELSE <<SubSeq(s, 1, k - 1)>> \o SplitSpaces(rest)

RECURSIVE DecValue(_)
\* the value of a run of decimal digits
DecValue(ds) ==
  IF ds = <<>> THEN 0
  ELSE 10 * DecValue(SubSeq(ds, 1, Len(ds) - 1)) + DigitValue(ds[Len(ds)])

RECURSIVE DigitPrefixLen(_)
DigitPrefixLen(s) ==
  IF s # <<>> /\ IsDigit(s[1]) THEN 1 + DigitPrefixLen(Tail(s)) ELSE 0

\* Number.parseInt(s): leading whitespace skipped, an optional sign, then the
\* longest prefix of decimal digits; NaN when there is no digit.  (The input
\* alphabet has no "x", so the hexadecimal prefix never applies.)
parseInt(s) ==
  LET t    == TrimStart(s)
      sgn  == t # <<>> /\ t[1] \in {"-", "+"}
      body == IF sgn THEN Tail(t) ELSE t
      n    == DigitPrefixLen(body)
      mag  == DecValue(SubSeq(body, 1, n))
  IN IF n = 0 THEN NaN
     ELSE Num(IF t[1] = "-" THEN 0 - mag ELSE mag)

\* Number(s): the whole trimmed string must be a numeric literal; the empty
\* string is 0.  (The input alphabet has no ".", "e", "x" or letters of
\* "Infinity", so the literal is an optionally signed run of digits.)
Number(s) ==
  LET t    == Trim(s)
      sgn  == t # <<>> /\ t[1] \in {"-", "+"}
      body == IF sgn THEN Tail(t) ELSE t
  IN IF t = <<>> THEN Num(0)
     ELSE IF body # <<>> /\ DigitPrefixLen(body) = Len(body)
          THEN Num(IF t[1] = "-" THEN 0 - DecValue(body) ELSE DecValue(body))
          ELSE NaN

\* ArrayFrom with the last element left out
ArrayFromShort(n, first) == [k \in 1..(IF n > 1 THEN n - 1 ELSE 0) |-> first + k - 1]

\* Array.from({ length: n }, (_, i) => first + i); a length below 1 gives []
ArrayFrom(n, first) == [k \in 1..(IF n > 0 THEN n ELSE 0) |-> first + k - 1]

RECURSIVE FilterInRange(_, _, _)
\* .filter((n) => !isNaN(n) && n >= min && n <= max) over mapped numbers
FilterInRange(nums, lo, hi) ==
  IF nums = <<>> THEN <<>>
  ELSE LET n == nums[1]
           rest == FilterInRange(Tail(nums), lo, hi)
       IN IF ~isNaN(n) /\ n.v >= lo /\ n.v <= hi THEN <<n.v>> \o rest ELSE rest

\* .map(Number)
MapNumber(strs) == [k \in 1..Len(strs) |-> Number(strs[k])]

(***************************************************************************)
(* Date: an instant is a count of minutes since 2024-01-01T00:00 (Monday). *)
(***************************************************************************)
IsLeapYear(y) == (y % 4 = 0 /\ y % 100 # 0) \/ y % 400 = 0

DaysInMonth(y, m) ==
  IF m = 2 THEN (IF IsLeapYear(y) THEN 29 ELSE 28)
  ELSE IF m \in {4, 6, 9, 11} THEN 30 ELSE 31

RECURSIVE CivilFrom(_, _, _)
\* year, month (1..12) and day of month of the day that lies `d` days after
\* the first of month m of year y
CivilFrom(y, m, d) ==
  IF d < DaysInMonth(y, m) THEN [year |-> y, month |-> m, day |-> d + 1]
  ELSE IF m = 12 THEN CivilFrom(y + 1, 1, d - DaysInMonth(y, m))
       ELSE CivilFrom(y, m + 1, d - DaysInMonth(y, m))

\* the civil date of instant t; instant 0 is 2024-01-01T00:00
Civil(t) == CivilFrom(2024, 1, t \div 1440)

getMinutes(t) == t % 60

getHours(t) == (t \div 60) % 24

getDate(t) == Civil(t).day

\* Date.prototype.getMonth() is zero-based
getMonth(t) == Civil(t).month - 1

\* 0 = Sunday; 2024-01-01 is a Monday
getDay(t) == (1 + t \div 1440) % 7

WeekdayShort == <<"Sun", "Mon", "Tue", "Wed", "Thu", "Fri", "Sat">>

MonthShort ==
  <<"Jan", "Feb", "Mar", "Apr", "May", "Jun",
    "Jul", "Aug", "Sep", "Oct", "Nov", "Dec">>

\* searchDate.toLocaleString("en-US", { weekday: "short", month: "short",
\* day: "numeric", hour: "numeric", minute: "2-digit", hour12: true }):
\* the parts of e.g. "Mon, Jan 1, 12:00 AM"; the year is not printed.
toLocaleString(t) ==
  [weekday   |-> WeekdayShort[getDay(t) + 1],
   month     |-> MonthShort[getMonth(t) + 1],
   day       |-> getDate(t),
   hour      |-> IF getHours(t) % 12 = 0 THEN 12 ELSE getHours(t) % 12,
   minute    |-> <<getMinutes(t) \div 10, getMinutes(t) % 10>>,
   dayPeriod |-> IF getHours(t) < 12 THEN "AM" ELSE "PM"]

\* AfterNow with >= for >: the reference minute itself is not excluded
AfterNowOrEqual(date, ref) == date >= ref.t

\* searchDate > now, searchDate a whole minute and now = minute now.t plus
\* now.ms milliseconds (0..59999)
AfterNow(date, ref) ==
  date > ref.t \/ (date = ref.t /\ 0 > ref.ms)

(***************************************************************************)
(* parseCronPart (the closure inside calculateNextExecutions)              *)
(***************************************************************************)
Star == <<"*">>

\* part.includes("/") with range === "*": the branch that runs the for loop
IsStepLoop(p) ==
  p # Star /\ Includes(p, "/") /\ SplitOn(p, "/")[1] = Star

\* const [range, step] = part.split("/"); Number.parseInt(step)
StepNumOf(p) == parseInt(SplitOn(p, "/")[2])

\* if (part.includes(",")): taken by every part that reaches it with a comma
IsList(p) == Includes(p, ",")

\* the comma branch
ParseList(p, lo, hi) ==
  FilterInRange(MapNumber(SplitOn(p, ",")), lo, hi)

\* the last statement: a single number inside [min, max], or []
ParseSingle(p, lo, hi) ==
  LET num == parseInt(p)
  IN IF ~isNaN(num) /\ num.v >= lo /\ num.v <= hi THEN <<num.v>> ELSE <<>>

\* ParseRange with the run cut to the domain [min, max]
ParseRangeInDomain(p, lo, hi) ==
  LET nums  == MapNumber(SplitOn(p, "-"))
      start == nums[1]
      end   == nums[2]
      from  == IF start.v > lo THEN start.v ELSE lo
      to    == IF end.v < hi THEN end.v ELSE hi
  IN IF ~isNaN(start) /\ ~isNaN(end)
     THEN ArrayFrom(to - from + 1, from)
     ELSE ParseSingle(p, lo, hi)

\* the hyphen branch, falling through to the last statement when a side is NaN
ParseRange(p, lo, hi) ==
  LET nums  == MapNumber(SplitOn(p, "-"))
      start == nums[1]
      end   == nums[2]
  IN IF ~isNaN(start) /\ ~isNaN(end)
     THEN ArrayFrom(end.v - start.v + 1, start.v)
     ELSE ParseSingle(p, lo, hi)

\* every branch of parseCronPart except the for loop of the "*/step" form
ParseNoLoop(p, lo, hi) ==
  IF p = Star THEN ArrayFrom(hi - lo + 1, lo)
  ELSE IF IsList(p) THEN ParseList(p, lo, hi)
  ELSE IF Includes(p, "-") THEN ParseRange(p, lo, hi)
  ELSE ParseSingle(p, lo, hi)

\* the (min, max) arguments of the five parseCronPart calls
FieldRange ==
  <<[min |-> 0, max |-> 59], [min |-> 0, max |-> 23], [min |-> 1, max |-> 31],
    [min |-> 1, max |-> 12], [min |-> 0, max |-> 6]>>

\* IsDayField without the null sentinel: "*" is parsed like any other token
IsDayFieldNever(k) == FALSE

\* dayPart === "*" ? null : ..., weekdayPart === "*" ? null : ...
IsDayField(k) == k \in {3, 5}

\* a variable holding null or an array (days, weekdays)
NullArr == [null |-> TRUE, arr |-> <<>>]

Arr(a) == [null |-> FALSE, arr |-> a]

\* DayMatch with AND for OR when both day fields are constrained
DayMatchAnd(days, weekdays, day, weekday) ==
  IF ~days.null /\ ~weekdays.null
  THEN ArrIncludes(days.arr, day) /\ ArrIncludes(weekdays.arr, weekday)
  ELSE IF ~days.null THEN ArrIncludes(days.arr, day)
  ELSE IF ~weekdays.null THEN ArrIncludes(weekdays.arr, weekday)
  ELSE TRUE

\* Day matching: either day of month OR day of week
DayMatch(days, weekdays, day, weekday) ==
  IF ~days.null /\ ~weekdays.null
  THEN ArrIncludes(days.arr, day) \/ ArrIncludes(weekdays.arr, weekday)
  ELSE IF ~days.null THEN ArrIncludes(days.arr, day)
  ELSE IF ~weekdays.null THEN ArrIncludes(weekdays.arr, weekday)
  ELSE TRUE

\* minuteMatch && hourMatch && dayMatch && monthMatch && searchDate > now
\* fields = <<minutes, hours, days, months, weekdays>>
IsExecution(fs, date, ref) ==
  /\ ArrIncludes(fs[1].arr, getMinutes(date))
  /\ ArrIncludes(fs[2].arr, getHours(date))
  /\ DayMatch(fs[3], fs[5], getDate(date), getDay(date))
  /\ ArrIncludes(fs[4].arr, getMonth(date) + 1)
  /\ AfterNow(date, ref)

\* attempts < 10000
MaxAttempts == 10000

\* executions.length < 5
MaxExecutions == 5

(***************************************************************************)
(* validateCronExpression                                                  *)
(***************************************************************************)
\* validations with weekday 7 accepted
validationsWeekday7 ==
  <<[range |-> <<0, 59>>, name |-> "minute"],
    [range |-> <<0, 23>>, name |-> "hour"],
    [range |-> <<1, 31>>, name |-> "day"],
    [range |-> <<1, 12>>, name |-> "month"],
    [range |-> <<0, 7>>,  name |-> "weekday"]>>

\* the validations array: range and name of each field, in order
validations ==
  <<[range |-> <<0, 59>>, name |-> "minute"],
    [range |-> <<0, 23>>, name |-> "hour"],
    [range |-> <<1, 31>>, name |-> "day"],
    [range |-> <<1, 12>>, name |-> "month"],
    [range |-> <<0, 6>>,  name |-> "weekday"]>>

\* the body of the for loop: does field k fail the basic validation?
FieldFails(value, range) ==
  /\ value # Star
  /\ ~Includes(value, "/")
  /\ ~Includes(value, ",")
  /\ ~Includes(value, "-")
  /\ LET num == parseInt(value)
     IN isNaN(num) \/ num.v < range[1] \/ num.v > range[2]

\* WrongPartCount with < for !==: more than five parts pass
TooFewParts(ps) == Len(ps) < 5

\* if (parts.length !== 5)
WrongPartCount(ps) == Len(ps) # 5

PartsMessage == <<"CRON expression must have exactly 5 parts">>

ValidMessage == <<"Valid CRON expression">>

\* `Invalid ${validation.name}: ${validation.value}`
InvalidMessage(name, value) == <<"Invalid ", name, ": ", value>>

\* The verdict validateCronExpression sets for `expression`: Null for blank
\* input, otherwise { isValid, message }.
Verdict(expression) ==
  LET ps == SplitSpaces(Trim(expression))
      bad   == {k \in 1..5 : FieldFails(ps[k], validations[k].range)}
      first == CHOOSE k \in bad : \A j \in bad : k <= j
  IN IF Trim(expression) = <<>> THEN Null
     ELSE IF WrongPartCount(ps)
          THEN [isValid |-> FALSE, message |-> PartsMessage]
     ELSE IF bad # {}
          THEN [isValid |-> FALSE,
                message |-> InvalidMessage(validations[first].name, ps[first])]
     ELSE [isValid |-> TRUE, message |-> ValidMessage]

\* the values locals hold while their function is not running
NoCall ==
  /\ parts = <<>> /\ now = Null /\ fld = 0 /\ fields = <<>>

NoSearch ==
  /\ searchDate = 0 /\ attempts = 0 /\ executions = <<>> /\ instants = <<>>

NoParse ==
  /\ part = <<>> /\ min = 0 /\ max = 0
  /\ stepNum = NaN /\ i = NaN /\ values = <<>>

(***************************************************************************)
(* Inputs                                                                  *)
(***************************************************************************)
RECURSIVE Join(_, _)
\* the tokens joined by the separator string sep
Join(toks, sep) ==
  IF toks = <<>> THEN <<>>
  ELSE IF Len(toks) = 1 THEN toks[1]
  ELSE toks[1] \o sep \o Join(Tail(toks), sep)

\* "M H DOM MON DOW" with single spaces
Expr(a, b, c, d, e) == Join(<<a, b, c, d, e>>, <<" ">>)

\* the reference instants new Date() may return
\*   2024-01-01T00:00:00.000 (Monday), the same minute 30.5 s later,
\*   2024-01-30T00:00:00.000 (Tuesday), 2024-02-28T08:30:00.000 (Wednesday)
References ==
  {[t |-> 0, ms |-> 0], [t |-> 0, ms |-> 30500],
   [t |-> 41760, ms |-> 0], [t |-> 84030, ms |-> 0]}

(***************************************************************************)
(* JS arithmetic on numbers that may be NaN                                *)
(***************************************************************************)
\* a + b
Plus(a, b) == IF isNaN(a) \/ isNaN(b) THEN NaN ELSE Num(a.v + b.v)

\* LessEq with < for <=: the domain maximum itself is left out
LessThan(a, n) == ~isNaN(a) /\ a.v < n

\* a <= n, false when a is NaN
LessEq(a, n) == ~isNaN(a) /\ a.v <= n

(***************************************************************************)
(* parseCronPart as a process: entry, the for loop, return                 *)
(***************************************************************************)
\* The model follows the for loop for at most this many pushes.  A loop
\* that ends pushes at most 60 values (the largest domain); a loop followed
\* beyond that is one whose condition i <= max never turns false.
MaxValues == 61

\* parseCronPart is entered with (part, min, max)
ParseEntry ==
  /\ ppc = "entry"
  /\ IF IsStepLoop(part)
     THEN /\ stepNum' = StepNumOf(part)
          /\ i' = Num(min)
          /\ values' = <<>>
          /\ ppc' = "loop"
     ELSE /\ values' = ParseNoLoop(part, min, max)
          /\ ppc' = "ret"
          /\ UNCHANGED <<stepNum, i>>
  /\ UNCHANGED <<part, min, max, uiVars, callVars, searchVars, firstRun, histVars>>

\* for (let i = min; i <= max; i += stepNum) values.push(i)
StepIter ==
  /\ ppc = "loop"
  /\ LessEq(i, max)
  /\ Len(values) < MaxValues
  /\ values' = Append(values, i.v)
  /\ i' = Plus(i, stepNum)
  /\ UNCHANGED <<ppc, part, min, max, stepNum, uiVars, callVars, searchVars,
               firstRun, histVars>>

\* the loop condition fails: return values
StepExit ==
  /\ ppc = "loop"
  /\ ~LessEq(i, max)
  /\ ppc' = "ret"
  /\ UNCHANGED <<part, min, max, stepNum, i, values, uiVars, callVars, searchVars,
               firstRun, histVars>>

(***************************************************************************)
(* validateCronExpression and calculateNextExecutions                      *)
(***************************************************************************)
\* RejectedExecutions without the reset: the list shown stays
RejectedExecutionsKept(shown) == shown

\* setNextExecutions([]) on the three rejecting paths
RejectedExecutions(shown) == <<>>

\* onChange / example / template / history click: setCronInput(text); the
\* effect clears the pending timeout and sets a new one
setCronInput(text) ==
  /\ pc = "idle"
  /\ text # cronInput
  /\ cronInput' = text
  /\ timer' = TRUE
  /\ UNCHANGED <<cronValidation, nextExecutions, callVars, searchVars, parseVars,
               firstRun, histVars>>

\* The timeout fires: validateCronExpression(cronInput).  A rejected input
\* sets the verdict and clears the list; an accepted one enters
\* calculateNextExecutions, which reads new Date().
validateCronExpression ==
  /\ pc = "idle"
  /\ timer
  /\ timer' = FALSE
  /\ LET verdict == Verdict(cronInput)
         split   == SplitSpaces(Trim(cronInput))
     IN IF verdict = Null \/ ~verdict.isValid
        THEN /\ cronValidation' = verdict
             /\ nextExecutions' = RejectedExecutions(nextExecutions)
             /\ UNCHANGED <<callVars>>
        ELSE IF Len(split) # 5
        THEN /\ cronValidation' = verdict
             /\ nextExecutions' = <<>>
             /\ UNCHANGED <<callVars>>
        ELSE /\ pc' = "parse"
             /\ parts' = split
             /\ \E ref \in References : now' = ref
             /\ fld' = 1
             /\ fields' = <<>>
             /\ UNCHANGED <<cronValidation, nextExecutions>>
  /\ UNCHANGED <<cronInput, searchVars, parseVars, firstRun, histVars>>

\* const minutes = parseCronPart(minutePart, 0, 59) ... : the next of the
\* five calls; a "*" day field is null without a call
ParseCall ==
  /\ pc = "parse"
  /\ ppc = "off"
  /\ fld <= 5
  /\ IF IsDayField(fld) /\ parts[fld] = Star
     THEN /\ fields' = Append(fields, NullArr)
          /\ fld' = fld + 1
          /\ UNCHANGED parseVars
     ELSE /\ ppc' = "entry"
          /\ part' = parts[fld]
          /\ min' = FieldRange[fld].min
          /\ max' = FieldRange[fld].max
          /\ UNCHANGED <<fld, fields, stepNum, i, values>>
  /\ UNCHANGED <<pc, parts, now, uiVars, searchVars, firstRun, histVars>>

\* parseCronPart returns to calculateNextExecutions
ParseReturn ==
  /\ pc = "parse"
  /\ ppc = "ret"
  /\ fields' = Append(fields, Arr(values))
  /\ fld' = fld + 1
  /\ ppc' = "off"
  /\ part' = <<>> /\ min' = 0 /\ max' = 0
  /\ stepNum' = NaN /\ i' = NaN /\ values' = <<>>
  /\ UNCHANGED <<pc, parts, now, uiVars, searchVars, firstRun, histVars>>

\* NewExecutions without the fresh array: the call starts from the list the
\* previous call returned
CarriedExecutions(shown) == shown

\* const executions: string[] = []: a new array in every call
NewExecutions(shown) == <<>>

\* const searchDate = new Date(now); searchDate.setSeconds(0, 0)
SearchBegin ==
  /\ pc = "parse"
  /\ ppc = "off"
  /\ fld = 6
  /\ pc' = "search"
  /\ searchDate' = now.t
  /\ attempts' = 0
  /\ executions' = NewExecutions(nextExecutions)
  /\ instants' = <<>>
  /\ UNCHANGED <<parts, now, fld, fields, uiVars, parseVars, firstRun, histVars>>

\* NextMinute advancing by two: every other minute is skipped
SecondNextMinute(date) == date + 2

\* searchDate.setMinutes(searchDate.getMinutes() + 1)
NextMinute(date) == date + 1

\* one iteration of the for loop over attempts
SearchIter ==
  /\ pc = "search"
  /\ attempts < MaxAttempts /\ Len(executions) < MaxExecutions
  /\ IF IsExecution(fields, searchDate, now)
     THEN /\ executions' = Append(executions, toLocaleString(searchDate))
          /\ instants' = Append(instants, searchDate)
     ELSE UNCHANGED <<executions, instants>>
  /\ searchDate' = NextMinute(searchDate)
  /\ attempts' = attempts + 1
  /\ UNCHANGED <<uiVars, callVars, parseVars, firstRun, histVars>>

\* the loop ends: return executions; validateCronExpression's
\* setCronValidation({ isValid: true, ... }) and setNextExecutions(executions)
\* take effect together when the handler returns
SearchReturn ==
  /\ pc = "search"
  /\ ~(attempts < MaxAttempts /\ Len(executions) < MaxExecutions)
  /\ cronValidation' = [isValid |-> TRUE, message |-> ValidMessage]
  /\ nextExecutions' = executions
  /\ pc' = "idle"
  /\ parts' = <<>> /\ now' = Null /\ fld' = 0 /\ fields' = <<>>
  /\ searchDate' = 0 /\ attempts' = 0 /\ executions' = <<>> /\ instants' = <<>>
  /\ firstRun' = IF firstRun = Null
                 THEN [expression |-> cronInput, now |-> now, result |-> executions]
                 ELSE firstRun
  /\ UNCHANGED <<cronInput, timer, parseVars, histVars>>

(***************************************************************************)
(* The conversion history: saveToHistory, clearHistory and the two         *)
(* handlers that await a fetch before they save                            *)
(***************************************************************************)
RECURSIVE toString(_)
\* Number.prototype.toString() of an integer
toString(n) ==
  IF n < 0 THEN <<"-">> \o toString(0 - n)
  ELSE IF n < 10 THEN <<Digits[n + 1]>>
  ELSE toString(n \div 10) \o <<Digits[(n % 10) + 1]>>

\* Array.prototype.slice(from, to)
slice(arr, from, to) ==
  SubSeq(arr, from + 1, IF to < Len(arr) THEN to ELSE Len(arr))

\* JSON.stringify of a HistoryItem[]: each object is its properties in
\* insertion order (...item, then id, then timestamp)
stringify(items) ==
  [k \in 1..Len(items) |->
     <<<<"input", items[k].input>>, <<"output", items[k].output>>,
       <<"type", items[k].type>>, <<"id", items[k].id>>,
       <<"timestamp", items[k].timestamp>>>>]

\* the value of property `key` of a parsed JSON object
Property(object, key) ==
  object[CHOOSE k \in 1..Len(object) : object[k][1] = key][2]

\* JSON.parse of a stored history
parse(json) ==
  [k \in 1..Len(json) |->
     [input     |-> Property(json[k], "input"),
      output    |-> Property(json[k], "output"),
      type      |-> Property(json[k], "type"),
      id        |-> Property(json[k], "id"),
      timestamp |-> Property(json[k], "timestamp")]]

\* localStorage.getItem(...) === null
NoItem == [null |-> TRUE, json |-> <<>>]

StoredItem(json) == [null |-> FALSE, json |-> json]

\* const newItem = { ...item, id: Date.now().toString(), timestamp: Date.now() }
NewItem(item, time) ==
  [input |-> item.input, output |-> item.output, type |-> item.type,
   id |-> toString(time), timestamp |-> time]

\* UpdatedHistory without the slice: nothing is dropped
UpdatedHistoryKeepAll(captured, item, time) == <<NewItem(item, time)>> \o captured

\* const updatedHistory = [newItem, ...history.slice(0, 9)], `history` being
\* the value the saveToHistory callback closed over
UpdatedHistory(captured, item, time) ==
  <<NewItem(item, time)>> \o slice(captured, 0, 9)

\* the text of the natural-language input
nlInput == <<"every day at 9 AM">>

\* data.cronExpression of a successful /api/nl-to-cron response
NlAnswer == <<"0 9 * * *">>

\* data.description of a successful /api/cron-to-nl response
CronAnswer == <<"Every minute">>

\* no handler is awaiting
NoRequest == [pending |-> FALSE, input |-> <<>>, history |-> <<>>, clickedAt |-> 0]

\* the state of the history of a page that has never saved
NoHistory ==
  /\ history = <<>> /\ storage = NoItem /\ clock = 0
  /\ nlLoading = FALSE /\ cronLoading = FALSE
  /\ nlRequest = NoRequest /\ cronRequest = NoRequest

\* The model follows the page until Date.now() has advanced this far; every
\* save reads a later time than the save before it.
MaxClock == 4

\* "Generate CRON" click: handleNlToCron runs up to its await; the handler
\* closed over nlInput and over saveToHistory, and through it over history
\* (clickedAt records when, for the properties)
handleNlToCron ==
  /\ ~nlLoading
  /\ Trim(nlInput) # <<>>
  /\ nlLoading' = TRUE
  /\ nlRequest' = [pending |-> TRUE, input |-> nlInput, history |-> history,
                   clickedAt |-> clock]
  /\ UNCHANGED <<history, storage, clock, cronLoading, cronRequest>>
  /\ UNCHANGED <<uiVars, callVars, searchVars, parseVars, firstRun>>

\* "Explain CRON" click: handleCronToNl runs up to its await
handleCronToNl ==
  /\ pc = "idle"
  /\ ~cronLoading
  /\ Trim(cronInput) # <<>>
  /\ ~(cronValidation # Null /\ ~cronValidation.isValid)
  /\ cronLoading' = TRUE
  /\ cronRequest' = [pending |-> TRUE, input |-> cronInput, history |-> history,
                     clickedAt |-> clock]
  /\ UNCHANGED <<history, storage, clock, nlLoading, nlRequest>>
  /\ UNCHANGED <<uiVars, callVars, searchVars, parseVars, firstRun>>

\* the fetch of handleNlToCron settles: on success saveToHistory(...) with
\* the closed-over history, on failure setNlError; finally setNlLoading(false)
NlToCronSettles ==
  /\ nlRequest.pending
  /\ \E ok \in BOOLEAN :
       IF ok
       THEN /\ clock < MaxClock
            /\ LET item == [input |-> nlRequest.input, output |-> NlAnswer,
                            type |-> "nl-to-cron"]
                   updatedHistory == UpdatedHistory(nlRequest.history, item, clock)
               IN /\ history' = updatedHistory
                  /\ storage' = StoredItem(stringify(updatedHistory))
            /\ clock' = clock + 1
       ELSE UNCHANGED <<history, storage, clock>>
  /\ nlLoading' = FALSE
  /\ nlRequest' = NoRequest
  /\ UNCHANGED <<cronLoading, cronRequest>>
  /\ UNCHANGED <<uiVars, callVars, searchVars, parseVars, firstRun>>

\* the fetch of handleCronToNl settles
CronToNlSettles ==
  /\ cronRequest.pending
  /\ \E ok \in BOOLEAN :
       IF ok
       THEN /\ clock < MaxClock
            /\ LET item == [input |-> cronRequest.input, output |-> CronAnswer,
                            type |-> "cron-to-nl"]
                   updatedHistory == UpdatedHistory(cronRequest.history, item, clock)
               IN /\ history' = updatedHistory
                  /\ storage' = StoredItem(stringify(updatedHistory))
            /\ clock' = clock + 1
       ELSE UNCHANGED <<history, storage, clock>>
  /\ cronLoading' = FALSE
  /\ cronRequest' = NoRequest
  /\ UNCHANGED <<nlLoading, nlRequest>>
  /\ UNCHANGED <<uiVars, callVars, searchVars, parseVars, firstRun>>

\* "Clear" click (the button is rendered while history.length > 0)
clearHistory ==
  /\ Len(history) > 0
  /\ history' = <<>>
  /\ storage' = NoItem
  /\ UNCHANGED <<clock, nlLoading, cronLoading, nlRequest, cronRequest>>
  /\ UNCHANGED <<uiVars, callVars, searchVars, parseVars, firstRun>>

(***************************************************************************)
(* Specifications                                                          *)
(***************************************************************************)
\* the component right after mount: the effect has set its first timeout
Mounted ==
  /\ timer = TRUE
  /\ cronValidation = Null
  /\ nextExecutions = <<>>
  /\ pc = "idle"
  /\ NoCall /\ NoSearch
  /\ ppc = "off"
  /\ NoParse
  /\ firstRun = Null
  /\ NoHistory

\* the steps of one validateCronExpression call
Evaluate ==
  \/ validateCronExpression
  \/ ParseCall
  \/ ParseEntry
  \/ StepIter
  \/ StepExit
  \/ ParseReturn
  \/ SearchBegin
  \/ SearchIter
  \/ SearchReturn

\* texts typed or clicked into the CRON input
UiInputs ==
  {<<>>,
   <<" ">>,
   Join(<<<<"0">>, <<"9">>, Star, Star>>, <<" ">>),
   Expr(<<"7", "0">>, <<"9">>, Star, Star, Star),
   Expr(Star, Star, Star, Star, Star),
   Expr(<<"*", "/", "1", "5">>, <<"9">>, Star, Star, Star),
   Expr(<<"*", "/", "0">>, Star, Star, Star, Star)}

Init == cronInput = <<>> /\ Mounted

Next ==
  \/ \E text \in UiInputs : setCronInput(text)
  \/ Evaluate

\* the page: any sequence of edits and debounced validations
Spec == Init /\ [][Next]_vars

\* expressions evaluated once each, from every reference instant
EvalInputs ==
  {Expr(<<"0">>, <<"0">>, Star, Star, <<"1">>),
   Expr(<<"3", "0">>, <<"8">>, Star, Star, <<"3">>),
   Expr(<<"0">>, <<"0">>, <<"1">>, Star, <<"1">>),
   Expr(<<"0">>, <<"0">>, <<"1", "-", "3", "1">>, Star, <<"1">>),
   Expr(<<"0">>, <<"0">>, <<"1">>, Star, Star),
   Expr(<<"0">>, <<"0">>, Star, Star, Star),
   Expr(<<"0">>, <<"9">>, Star, Star, Star),
   Expr(<<"0">>, <<"0">>, <<"3", "0">>, <<"2">>, Star),
   Expr(<<"0">>, <<"0">>, <<"2", "9">>, <<"2">>, <<"4">>),
   Expr(<<"0">>, <<"0">>, <<"1", ",", "3", "1">>, Star, <<"1", ",", "4">>),
   Expr(Star, Star, Star, Star, Star),
   Expr(<<"*", "/", "1", "5">>, Star, Star, Star, Star),
   Expr(<<"*", "/", "0">>, Star, Star, Star, Star),
   Expr(Star, <<"*", "/", "-", "1">>, Star, Star, Star),
   Expr(Star, Star, <<"*", "/", "a">>, Star, Star),
   Expr(<<"0">>, <<"0">>, <<"*", "/", "1", "0">>, Star, <<"*", "/", "3">>),
   Expr(<<"1", ",", ",", "5">>, Star, Star, Star, Star),
   Expr(<<"0">>, <<"0">>, <<"4", "0", ",", "5", "0">>, Star, <<"1">>),
   Expr(<<"0">>, <<"0">>, <<"1">>, Star, <<"8", ",", "9">>),
   Expr(<<"4", "0">>, <<"2", "2">>, <<"7">>, Star, Star),
   <<" ">> \o Join(<<<<"0">>, <<"9">>, Star>>, <<" ", " ">>)
           \o <<" ">> \o Star \o <<" ">> \o Star \o <<" ">>}

EvalInit == cronInput \in EvalInputs /\ Mounted

\* one debounced validation of one input
EvalSpec == EvalInit /\ [][Evaluate]_vars

\* a for loop that has started keeps running: its next iteration, or its
\* exit, is taken
FairEvalSpec == EvalSpec /\ WF_vars(StepIter) /\ WF_vars(StepExit)

\* the longest token of the exhaustive token set
MaxTokLen == 3

\* the characters tokens are made of
TokenChars == {"0", "1", "5", "*", "/", ",", "-", "a"}

\* every token of at most MaxTokLen characters, and the tokens the
\* documentation and the placeholder texts use
Tokens ==
  UNION {[1..n -> TokenChars] : n \in 1..MaxTokLen}
  \cup {<<"*", "/", "1", "5">>, <<"1", ",", "5", ",", "6", "1">>,
        <<"1", "0", "-", "1", "2">>, <<"*", "/", "-", "1">>,
        <<"1", ",", ",", "5">>, <<"1", ",", "1", "-", "3">>,
        <<"1", "-", "5", "/", "2">>, <<"*", "/", "1", "0">>}

\* parseCronPart(token, min, max) called once, for each field's domain
ParseInit ==
  /\ cronInput = <<>> /\ timer = FALSE
  /\ cronValidation = Null /\ nextExecutions = <<>>
  /\ pc = "none"
  /\ NoCall /\ NoSearch
  /\ ppc = "entry"
  /\ part \in Tokens
  /\ \E k \in 1..5 : min = FieldRange[k].min /\ max = FieldRange[k].max
  /\ stepNum = NaN /\ i = NaN /\ values = <<>>
  /\ firstRun = Null
  /\ NoHistory

ParseNext == ParseEntry \/ StepIter \/ StepExit

ParseSpec == ParseInit /\ [][ParseNext]_vars

\* the most tokens an input of the token-count family has
MaxParts == 7

\* k tokens "*", single-spaced, double-spaced, or padded with spaces
StarInputs ==
  UNION {{Join([j \in 1..k |-> Star], <<" ">>),
          Join([j \in 1..k |-> Star], <<" ", " ">>),
          <<" ">> \o Join([j \in 1..k |-> Star], <<" ">>) \o <<" ", " ">>}
         : k \in 0..MaxParts}

\* per field: "*", the largest value of the domain, the value after it
FieldChoices ==
  <<{Star, <<"5", "9">>, <<"6", "0">>},
    {Star, <<"2", "3">>, <<"2", "4">>},
    {Star, <<"3", "1">>, <<"3", "2">>},
    {Star, <<"1", "2">>, <<"1", "3">>},
    {Star, <<"6">>, <<"7">>}>>

\* the smallest values, the values below them, non-numeric and signed
\* tokens, tokens with trailing characters, and tokens with separators
EdgeInputs ==
  {Expr(<<"0">>, <<"0">>, <<"1">>, <<"1">>, <<"0">>),
   Expr(Star, Star, <<"0">>, Star, Star),
   Expr(Star, Star, Star, <<"0">>, Star),
   Expr(<<"a">>, Star, Star, Star, <<"a">>),
   Expr(Star, <<"+", "5">>, Star, Star, Star),
   Expr(<<"5", "a">>, Star, Star, Star, Star),
   Expr(Star, <<"a", "5">>, Star, Star, Star),
   Expr(<<"-", "1">>, Star, Star, Star, Star),
   Expr(<<"9", "9", ",", "9", "9">>, <<"a", "/", "a">>, <<"9", "-", "1">>, Star, Star),
   Expr(<<"*", "/", "1", "5">>, <<"*", "/", "a">>, Star, Star, <<"1", "-", "5">>),
   Join(<<<<"0">>, <<"9">>, Star, Star>>, <<" ">>),
   Join(<<<<"7", "0">>, <<"9">>, Star, Star>>, <<" ">>),
   Join(<<<<"7", "0">>, Star, Star, Star, Star, Star>>, <<" ">>)}

ValidateInputs ==
  StarInputs
  \cup {Expr(a, b, c, d, e) :
          a \in FieldChoices[1], b \in FieldChoices[2], c \in FieldChoices[3],
          d \in FieldChoices[4], e \in FieldChoices[5]}
  \cup EdgeInputs

ValidateInit == cronInput \in ValidateInputs /\ Mounted

\* one debounced validation of each input of the validation families
ValidateSpec == ValidateInit /\ [][Evaluate]_vars

\* the history a previous session left in localStorage: ten items, the
\* newest first, of both kinds
PriorHistory ==
  [k \in 1..10 |->
     NewItem([input  |-> IF k % 2 = 0 THEN nlInput ELSE Expr(Star, Star, Star, Star, Star),
              output |-> IF k % 2 = 0 THEN NlAnswer ELSE CronAnswer,
              type   |-> IF k % 2 = 0 THEN "nl-to-cron" ELSE "cron-to-nl"],
             0 - k)]

\* The page after mount, with "* * * * *" typed and validated at
\* 2024-01-01T00:00:00.000; the mount effect has loaded the stored history.
HistoryInit ==
  /\ cronInput = Expr(Star, Star, Star, Star, Star)
  /\ timer = FALSE
  /\ cronValidation = [isValid |-> TRUE, message |-> ValidMessage]
  /\ nextExecutions = [k \in 1..5 |-> toLocaleString(k)]
  /\ pc = "idle"
  /\ NoCall /\ NoSearch
  /\ ppc = "off"
  /\ NoParse
  /\ firstRun = [expression |-> cronInput, now |-> [t |-> 0, ms |-> 0],
                 result |-> nextExecutions]
  /\ storage \in {NoItem, StoredItem(stringify(PriorHistory))}
  /\ history = IF storage.null THEN <<>> ELSE parse(storage.json)
  /\ clock = 0
  /\ nlLoading = FALSE /\ cronLoading = FALSE
  /\ nlRequest = NoRequest /\ cronRequest = NoRequest

HistoryNext ==
  \/ handleNlToCron
  \/ handleCronToNl
  \/ NlToCronSettles
  \/ CronToNlSettles
  \/ clearHistory

\* the two conversions and the history, on a validated CRON input
HistorySpec == HistoryInit /\ [][HistoryNext]_vars

\* texts typed into the CRON input between clicks on "Explain CRON"
ExplainInputs ==
  {<<>>,
   Expr(Star, Star, Star, Star, Star),
   Expr(<<"7", "0">>, <<"9">>, Star, Star, Star),
   Expr(<<"*", "/", "1", "5">>, Star, Star, Star, Star)}

ExplainNext ==
  \/ \E text \in ExplainInputs : setCronInput(text)
  \/ Evaluate
  \/ handleCronToNl

\* the CRON tab up to the sending of an "Explain CRON" request and while it
\* is awaited: edits, debounced validations and the click, in any order
ExplainSpec == Init /\ [][ExplainNext]_vars

(***************************************************************************)
(* Vocabulary of the properties                                            *)
(***************************************************************************)
\* the number of maximal runs of non-whitespace characters of s
NumTokens(s) ==
  Cardinality({k \in 1..Len(s) : ~IsSpace(s[k]) /\ (k = 1 \/ IsSpace(s[k - 1]))})

\* the k-th whitespace-separated token of s
Token(s, k) == SplitSpaces(Trim(s))[k]

AllDigits(tok) == tok # <<>> /\ \A k \in 1..Len(tok) : IsDigit(tok[k])

\* an optionally signed run of decimal digits
IsIntLiteral(tok) ==
  IF tok # <<>> /\ tok[1] \in {"-", "+"} THEN AllDigits(Tail(tok)) ELSE AllDigits(tok)

IntLiteralValue(tok) ==
  IF tok[1] = "-" THEN 0 - DecValue(Tail(tok))
  ELSE IF tok[1] = "+" THEN DecValue(Tail(tok)) ELSE DecValue(tok)

\* validateCronExpression has returned
Validated == pc = "idle" /\ ~timer

\* the search loop has ended and calculateNextExecutions is about to return
SearchDone ==
  pc = "search" /\ ~(attempts < MaxAttempts /\ Len(executions) < MaxExecutions)

\* a SearchIter step: the cursor minute searchDate is examined
Examines == pc = "search" /\ attempts' = attempts + 1

\* the examined minute is appended to the result
Pushed == instants' = Append(instants, searchDate)

\* the examined minute is skipped
Skipped == instants' = instants

\* minute, hour and month of minute t are in their parsed sets and t is
\* later than the reference
OtherFieldsMatch(t) ==
  /\ ArrIncludes(fields[1].arr, getMinutes(t))
  /\ ArrIncludes(fields[2].arr, getHours(t))
  /\ ArrIncludes(fields[4].arr, getMonth(t) + 1)
  /\ t > now.t

\* the domains and names of the five fields, as the documentation gives them
DocDomains == <<0..59, 0..23, 1..31, 1..12, 0..6>>

DocNames == <<"minute", "hour", "day", "month", "weekday">>

\* a token that is not "*" and holds none of "/", ",", "-"
IsSimple(tok) == tok # Star /\ \A k \in 1..Len(tok) : tok[k] \notin {"/", ",", "-"}

\* the fields of the five-token text s that are simple and do not parse as
\* an integer of their domain
Offending(s) ==
  LET toks == SplitSpaces(Trim(s))
  IN {k \in 1..5 : /\ IsSimple(toks[k])
                   /\ LET num == parseInt(toks[k])
                      IN isNaN(num) \/ num.v \notin DocDomains[k]}

FirstOffending(s) == CHOOSE k \in Offending(s) : \A j \in Offending(s) : k <= j

(***************************************************************************)
(* Properties                                                              *)
(***************************************************************************)
\* the expression is "M H * * D" and the reference is the whole minute M of
\* hour H on a weekday D
WeeklyAtReference ==
  /\ AllDigits(parts[1]) /\ AllDigits(parts[2]) /\ AllDigits(parts[5])
  /\ parts[3] = Star /\ parts[4] = Star
  /\ now.ms = 0
  /\ DecValue(parts[1]) = getMinutes(now.t)
  /\ DecValue(parts[2]) = getHours(now.t)
  /\ DecValue(parts[5]) = getDay(now.t)

\* C1: for "M H * * D" and a reference that is itself a matching whole
\* minute, the returned list is non-empty and its first entry is the
\* matching instant 10,080 minutes after the reference.
C1_FirstIsNextWeek ==
  (SearchDone /\ WeeklyAtReference) =>
    /\ instants # <<>>
    /\ instants[1] = now.t + 10080
    /\ executions[1] = toLocaleString(now.t + 10080)

\* C2: for every accepted five-token expression the evaluation terminates:
\* whenever parseCronPart enters its for loop, the loop ends and
\* parseCronPart returns.
C2_Terminates == (ppc = "loop") ~> (ppc = "ret")

\* C3: when both day tokens are not "*", an examined minute whose minute,
\* hour and month match is appended exactly when its day of month is in the
\* parsed day-of-month set OR its weekday is in the parsed weekday set.
C3_DayFieldOrRule ==
  [][(Examines /\ parts[3] # Star /\ parts[5] # Star) =>
       IF /\ OtherFieldsMatch(searchDate)
          /\ \/ ArrIncludes(fields[3].arr, getDate(searchDate))
             \/ ArrIncludes(fields[5].arr, getDay(searchDate))
       THEN Pushed ELSE Skipped]_vars

\* both day fields constrained; a returned minute whose day of month matches
\* and whose weekday does not, and one whose weekday matches and whose day of
\* month does not
C3_Witness ==
  /\ pc = "search"
  /\ parts[3] # Star /\ parts[5] # Star
  /\ \E a, b \in 1..Len(instants) :
       /\ ArrIncludes(fields[3].arr, getDate(instants[a]))
       /\ ~ArrIncludes(fields[5].arr, getDay(instants[a]))
       /\ ~ArrIncludes(fields[3].arr, getDate(instants[b]))
       /\ ArrIncludes(fields[5].arr, getDay(instants[b]))

\* C4: the list has at most 5 entries, each the formatted text of an instant
\* strictly later than the reference, in strictly ascending order.
C4_OrderedFutureAtMostFive ==
  /\ Len(nextExecutions) <= 5
  /\ pc = "search" =>
       /\ Len(executions) <= 5
       /\ Len(instants) = Len(executions)
       /\ \A k \in 1..Len(instants) :
            /\ executions[k] = toLocaleString(instants[k])
            /\ instants[k] > now.t
            /\ k > 1 => instants[k - 1] < instants[k]

\* five results from a reference that is itself a matching whole minute
C4_Witness ==
  /\ SearchDone
  /\ Len(instants) = 5
  /\ now.ms = 0
  /\ ArrIncludes(fields[1].arr, getMinutes(now.t))
  /\ ArrIncludes(fields[2].arr, getHours(now.t))
  /\ ArrIncludes(fields[4].arr, getMonth(now.t) + 1)
  /\ fields[3].null /\ fields[5].null

RejectedParts == [isValid |-> FALSE, message |-> PartsMessage]

\* C5 as stated: every input that does not split into exactly five tokens,
\* the empty and the whitespace-only input included, gets the verdict
\* invalid with the message "CRON expression must have exactly 5 parts".
C5_NotFivePartsRejected ==
  (Validated /\ NumTokens(cronInput) # 5) => cronValidation = RejectedParts

\* C5 amended: an input of 1-4 or 6+ tokens gets that verdict; the empty and
\* the whitespace-only input get no verdict (null); both leave the list empty.
C5_NotFivePartsRejectedUnlessBlank ==
  (Validated /\ NumTokens(cronInput) # 5) =>
    /\ cronValidation = IF NumTokens(cronInput) = 0 THEN Null ELSE RejectedParts
    /\ nextExecutions = <<>>

\* an input of more than five tokens has been rejected
C5_Witness ==
  /\ Validated
  /\ NumTokens(cronInput) > 5
  /\ cronValidation = RejectedParts

C7_BadStepIsEmpty ==
  (/\ ppc = "ret"
   /\ Len(part) >= 2 /\ part[1] = "*" /\ part[2] = "/"
   /\ LET step == parseInt(SplitOn(part, "/")[2])
      IN isNaN(step) \/ step.v <= 0)
  => values = <<>>

RECURSIVE KeptMembers(_, _, _)
\* the members that are integer literals within [lo, hi], in order
KeptMembers(members, lo, hi) ==
  IF members = <<>> THEN <<>>
  ELSE LET m    == members[1]
           rest == KeptMembers(Tail(members), lo, hi)
       IN IF IsIntLiteral(m) /\ IntLiteralValue(m) >= lo /\ IntLiteralValue(m) <= hi
          THEN <<IntLiteralValue(m)>> \o rest
          ELSE rest

\* C8: for a comma list, parseCronPart returns exactly the members that are
\* integers within [min, max]; empty, non-numeric, range and out-of-range
\* members contribute no value.
C8_ListKeepsValidMembers ==
  (ppc = "ret" /\ Includes(part, ",") /\ ~Includes(part, "/"))
  => values = KeptMembers(SplitOn(part, ","), min, max)

\* C9: the displayed list is non-empty only under a valid verdict, and
\* calculateNextExecutions runs only for an input that passes every check.
C9_ValidatorGatesSearch ==
  /\ nextExecutions # <<>> =>
       IF cronValidation = Null THEN FALSE ELSE cronValidation.isValid
  /\ pc \in {"parse", "search"} =>
       NumTokens(cronInput) = 5 /\ Offending(cronInput) = {}

\* the list of an accepted input is displayed under its valid verdict
C9_Witness ==
  /\ Validated
  /\ nextExecutions # <<>>
  /\ cronValidation # Null
  /\ cronValidation.isValid

\* C10: a "*" day field is unconstrained: with only one day token not "*" an
\* examined minute is appended exactly when the other fields match and its
\* value is in that one field's set; with both "*" exactly when the other
\* fields match; with the explicit day-of-month range 1-31 and a weekday D
\* every day is appended.
C10_WildcardSentinel ==
  [][Examines =>
       LET t     == searchDate
           other == OtherFieldsMatch(t)
           dom   == ArrIncludes(fields[3].arr, getDate(t))
           dow   == ArrIncludes(fields[5].arr, getDay(t))
           full  == parts[3] = <<"1", "-", "3", "1">>
       IN /\ (parts[3] = Star /\ parts[5] = Star) =>
               IF other THEN Pushed ELSE Skipped
          /\ (parts[3] = Star /\ parts[5] # Star) =>
               IF other /\ dow THEN Pushed ELSE Skipped
          /\ (parts[3] # Star /\ parts[5] = Star) =>
               IF other /\ dom THEN Pushed ELSE Skipped
          /\ (full /\ parts[5] # Star) =>
               IF other THEN Pushed ELSE Skipped]_vars

\* "M H * * D": two days were examined, a minute of weekday D was returned
\* and every returned minute is of a weekday in D's set
C10_Witness ==
  /\ pc = "search"
  /\ parts[3] = Star /\ parts[5] # Star
  /\ attempts > 2880
  /\ instants # <<>>
  /\ \A k \in 1..Len(instants) : ArrIncludes(fields[5].arr, getDay(instants[k]))

\* C11: an evaluation with the same expression and the same reference
\* instant as the first completed evaluation returns the same list, whatever
\* edits, validations and evaluations ran between the two.
C11_Deterministic ==
  (/\ SearchDone
   /\ firstRun # Null
   /\ firstRun.expression = cronInput
   /\ firstRun.now = now)
  => executions = firstRun.result

\* the first evaluation's arguments are evaluated again, with a non-empty
\* result, after another evaluation has replaced the displayed list
C11_Witness ==
  /\ SearchDone
  /\ firstRun # Null
  /\ firstRun.expression = cronInput
  /\ firstRun.now = now
  /\ executions # <<>>
  /\ nextExecutions # <<>>
  /\ nextExecutions # firstRun.result

\* field k was parsed to the empty array
EmptyField(k) == ~fields[k].null /\ fields[k].arr = <<>>

\* C12: if any of the five fields is parsed to the empty set, the day fields
\* with the other day field constrained included, the search returns no
\* result.
C12_EmptyFieldNoResults ==
  (SearchDone /\ \E k \in 1..5 : EmptyField(k)) => executions = <<>>

\* the token is "*/" followed by the decimal digits of a positive integer
IsPositiveStep(tok) ==
  /\ Len(tok) >= 3 /\ tok[1] = "*" /\ tok[2] = "/"
  /\ AllDigits(SubSeq(tok, 3, Len(tok)))
  /\ DecValue(SubSeq(tok, 3, Len(tok))) > 0

\* the values lo, lo + n, lo + 2n, ... that are at most hi, ascending
Stepped(lo, hi, n) == [k \in 1..((hi - lo) \div n + 1) |-> lo + (k - 1) * n]

\* C13: for "*/n" with n a positive integer, parseCronPart returns exactly
\* min, min + n, min + 2n, ... up to max.
C13_StepValues ==
  (ppc = "ret" /\ IsPositiveStep(part)) =>
    values = Stepped(min, max, DecValue(SubSeq(part, 3, Len(part))))

\* "*/15" on [0, 59] has returned 0, 15, 30, 45
C13_Witness ==
  /\ ppc = "ret"
  /\ part = <<"*", "/", "1", "5">>
  /\ min = 0 /\ max = 59
  /\ values = <<0, 15, 30, 45>>

\* the token is "start-end", each side the decimal digits of an integer
IsPlainRange(tok) ==
  /\ Cardinality({k \in 1..Len(tok) : tok[k] = "-"}) = 1
  /\ AllDigits(SplitOn(tok, "-")[1])
  /\ AllDigits(SplitOn(tok, "-")[2])

\* the ascending run a, a + 1, ..., b; empty when a > b
Run(a, b) == [k \in 1..(IF b >= a THEN b - a + 1 ELSE 0) |-> a + k - 1]

\* C14: for "start-end" with both sides integers, parseCronPart returns
\* exactly start, start + 1, ..., end, whatever the field's domain; the
\* empty array when start > end.
C14_RangeRun ==
  (ppc = "ret" /\ IsPlainRange(part)) =>
    values = Run(DecValue(SplitOn(part, "-")[1]), DecValue(SplitOn(part, "-")[2]))

\* "10-12" on the weekday domain [0, 6] has returned 10, 11, 12
C14_Witness ==
  /\ ppc = "ret"
  /\ part = <<"1", "0", "-", "1", "2">>
  /\ min = 0 /\ max = 6
  /\ values = <<10, 11, 12>>

\* the five-token text s passes the documented check: every simple token is
\* an integer of its field's domain
AllSimpleInDomain(s) ==
  \A k \in 1..5 :
    IsSimple(Token(s, k)) =>
      /\ IsIntLiteral(Token(s, k))
      /\ IntLiteralValue(Token(s, k)) \in DocDomains[k]

\* the verdict is valid with the message "Valid CRON expression"
VerdictValid ==
  cronValidation = [isValid |-> TRUE, message |-> ValidMessage]

\* C15: the verdict is valid, with message "Valid CRON expression", exactly
\* when the input has five tokens and every token that is not "*" and holds
\* none of "/", ",", "-" is an integer within its field's domain; an invalid
\* verdict never names a token that holds "/", "," or "-".
C15_ValidExactly ==
  Validated =>
    /\ VerdictValid <=> (NumTokens(cronInput) = 5 /\ AllSimpleInDomain(cronInput))
    /\ (/\ cronValidation # Null
        /\ ~cronValidation.isValid
        /\ cronValidation.message # PartsMessage)
       => IsSimple(cronValidation.message[4])

\* C16: parseCronPart("*", min, max) returns exactly min, ..., max: every
\* value of the domain and none outside it.
C16_StarFullDomain ==
  (ppc = "ret" /\ part = Star) =>
    /\ Len(values) = max - min + 1
    /\ \A k \in 1..Len(values) : values[k] = min + k - 1
    /\ {values[k] : k \in 1..Len(values)} = min..max

\* "*" on the day-of-month domain [1, 31] has returned 31 values
C16_Witness ==
  /\ ppc = "ret"
  /\ part = Star
  /\ min = 1 /\ max = 31
  /\ Len(values) = 31
  /\ values[1] = 1 /\ values[31] = 31

\* the search loop is about to examine the cursor minute
AboutToExamine ==
  pc = "search" /\ attempts < MaxAttempts /\ Len(executions) < MaxExecutions

\* C17: the cursor starts at the reference truncated to the minute and is
\* advanced before the first comparison, so that iteration k examines
\* minute truncated-reference + 1 + k, the last one being + 10,000; a
\* matching minute exactly 10,000 minutes after the truncated reference is
\* returned when fewer than 5 earlier minutes match.
C17_WindowOneToTenThousand ==
  /\ AboutToExamine => searchDate = now.t + 1 + attempts
  /\ (/\ SearchDone
      /\ IsExecution(fields, now.t + MaxAttempts, now)
      /\ Len(instants) < MaxExecutions)
     => ArrIncludes(instants, now.t + MaxAttempts)

\* the day predicate of minute t as documented: a "*" day token does not
\* constrain; with both constrained either one suffices
DayPredicate(t) ==
  LET dom == ArrIncludes(fields[3].arr, getDate(t))
      dow == ArrIncludes(fields[5].arr, getDay(t))
  IN IF parts[3] = Star /\ parts[5] = Star THEN TRUE
     ELSE IF parts[5] = Star THEN dom
     ELSE IF parts[3] = Star THEN dow
     ELSE dom \/ dow

\* C18: the search skips nothing: every examined minute that is after the
\* reference and satisfies the minute, hour, month and day predicates is
\* appended, in order, and no other; the cursor advances by exactly one
\* minute per iteration; the loop stops right after the fifth result.
C18_SearchSkipsNothing ==
  /\ [][Examines =>
         /\ searchDate' = searchDate + 1
         /\ IF OtherFieldsMatch(searchDate) /\ DayPredicate(searchDate)
            THEN Pushed /\ executions' = Append(executions, toLocaleString(searchDate))
            ELSE Skipped /\ executions' = executions]_vars
  /\ [](pc = "search" =>
         /\ searchDate = now.t + attempts
         /\ Len(instants) <= 5
         /\ Len(instants) = 5 => instants[5] = searchDate - 1
         /\ SearchDone => (Len(instants) = 5 \/ attempts = 10000))

\* "0 9 * * *" from 08:30: 09:00 of the same day and of the four days after
C18_Witness ==
  /\ SearchDone
  /\ parts = <<<<"0">>, <<"9">>, Star, Star, Star>>
  /\ getHours(now.t) = 8 /\ getMinutes(now.t) = 30
  /\ instants = [k \in 1..5 |-> now.t + 30 + (k - 1) * 1440]

\* the timestamps of the items never increase from the head on
NewestFirst(items) ==
  \A k \in 2..Len(items) : items[k - 1].timestamp >= items[k].timestamp

\* a step in which saveToHistory ran
Saves == history' # history /\ history' # <<>>

\* the history the saving handler closed over
Captured ==
  IF nlRequest.pending /\ ~nlRequest'.pending
  THEN nlRequest.history ELSE cronRequest.history

\* C19: the history holds at most 10 items, newest first; a save puts the
\* new item at the head, keeps the items behind it in order and drops what
\* lies beyond the tenth; after every save the copy persisted under
\* "cron-generator-history" equals the history in memory.
C19_HistoryBounded ==
  /\ [](Len(history) <= 10 /\ NewestFirst(history))
  /\ [][Saves =>
         /\ history'[1].timestamp = clock
         /\ Len(history') = IF Len(Captured) < 10 THEN Len(Captured) + 1 ELSE 10
         /\ Tail(history') = SubSeq(Captured, 1, Len(history') - 1)
         /\ ~storage'.null
         /\ parse(storage'.json) = history']_vars

\* a save onto a full history has dropped the oldest item, and the persisted
\* copy holds the ten items in memory
C19_Witness ==
  /\ Len(history) = 10
  /\ history[1].timestamp >= 0
  /\ history[10].timestamp = 0 - 9
  /\ ~storage.null
  /\ parse(storage.json) = history

\* item is one of items
HoldsItem(items, item) == \E k \in 1..Len(items) : items[k] = item

\* every item of the current history of the given type that was saved since
\* `since` is in the next history and in its persisted copy
KeepsSavedSince(type, since) ==
  \A k \in 1..Len(history) :
    (history[k].type = type /\ history[k].timestamp >= since) =>
      /\ HoldsItem(history', history[k])
      /\ ~storage'.null
      /\ HoldsItem(parse(storage'.json), history[k])

\* C20: no lost history update: when one conversion saves while the other
\* conversion, started and saved during its flight, is in the history, the
\* history and its persisted copy hold an entry for both afterwards.
C20_NoLostUpdate ==
  [][/\ (nlRequest.pending /\ ~nlRequest'.pending /\ Saves) =>
          KeepsSavedSince("cron-to-nl", nlRequest.clickedAt)
     /\ (cronRequest.pending /\ ~cronRequest'.pending /\ Saves) =>
          KeepsSavedSince("nl-to-cron", cronRequest.clickedAt)]_vars

\* a step in which handleCronToNl sends its request
SendsExplain == ~cronRequest.pending /\ cronRequest'.pending

\* C21: whatever the order of edits, timer firings and clicks, the "Explain
\* CRON" request is sent only for a cronInput that validateCronExpression
\* judges valid, and the verdict that enables the button is the verdict of
\* the current cronInput.
C21_ExplainOnlyValid ==
  [][SendsExplain =>
       /\ cronRequest'.input = cronInput
       /\ Verdict(cronInput) # Null
       /\ Verdict(cronInput).isValid
       /\ cronValidation = Verdict(cronInput)]_vars

====
